---- MODULE Spec2Model ----
(***************************************************************************)
(* Model of uair10/visa_service, src/main.py: the account store            *)
(* (AccountDB), the console monitor, the step executor (safe_click), the   *)
(* login and slot-search procedures, check_account, run_check and main.    *)
(*                                                                         *)
(* Time is counted in minutes and observed in steps of                     *)
(* CHECK_INTERVAL_MINUTES.  A timestamp written with strftime and read     *)
(* back with strptime, "%Y-%m-%d %H:%M:%S", keeps whole seconds, so a      *)
(* whole number of minutes survives the round trip, and SQLite's text      *)
(* comparison of two such fixed-width strings is the comparison of the     *)
(* two numbers.  SQL NULL / Python None is the value NULL, which no        *)
(* comparison of the WHERE clause accepts.                                 *)
(*                                                                         *)
(* Faults of the environment that are modelled: the browser failing to     *)
(* open, page operations raising (with or without "429" in the message),   *)
(* elements not found, console messages arriving while a page operation    *)
(* is in progress, and KeyboardInterrupt.  SQL statements that prepare     *)
(* correctly are taken to execute; within this fault set no exception      *)
(* reaches the handler of check_account (lines 416-424).                   *)
(***************************************************************************)
EXTENDS Integers, Sequences, FiniteSets, TLC

\* ---- program constants (src/main.py:22-25) ----
ACCOUNT_DELAY_MINUTES == 30
MAX_RETRIES == 3
CHECK_INTERVAL_MINUTES == 10
\* number of entries of `actions` in perform_login_actions (lines 261-268)
LOGIN_ACTIONS == 6
\* index of the "#password" entry, which is filled, not clicked (line 273)
PASSWORD_ACTION == 2
\* safe_click calls of check_location_availability: 3 before the slot is
\* chosen (lines 329-334), 4 after (lines 371-378)
SEARCH_CLICKS_BEFORE == 3
SEARCH_CLICKS == 7
\* accounts main() seeds (lines 450-459)
SEED_ACCOUNTS == 2
\* lines of the console buffer quoted in a 429 notification (line 214)
REPORT_LINES == 10
\* SQL NULL / None
NULL == -1

\* ---- bounds of the model ----
MaxAccounts == 2
MaxTime == 30
MaxMsgs == 1
MaxSlots == 2
StoreMaxTime == 20

VARIABLES
    accounts,          \* the accounts table: a sequence of rows, rowid = index
    now,               \* datetime.now(), minutes
    next_run,          \* next_run of the job registered with schedule (line 462)
    pc,                \* position of the (single) thread
    in_loop,           \* main() is inside its try block (lines 468-474)
    db_open,           \* the sqlite connection is open
    crash_cause,       \* why the process died, "" while it lives
    seeded,            \* add_account calls of main() that returned
    queue,             \* run_check: accounts of the cycle not yet finished
    d429,              \* ConsoleMonitor._429_detected
    console_messages,  \* ConsoleMonitor.console_messages (the lines' text is not kept)
    page_text,         \* the page body text contains "429"/"Too Many Requests"
    phase,             \* "login" or "search": the caller of safe_click
    step,              \* index of the action / safe_click call in progress
    lg_attempt,        \* login: attempt
    sc_attempt,        \* safe_click: attempt
    err429,            \* the exception being handled mentions 429
    slot_count,        \* check_location_availability: count
    hist,              \* what happened so far in the current probe (history)
    out                \* what the last step sent, saved or clicked (history)

vars == <<accounts, now, next_run, pc, in_loop, db_open, crash_cause,
          seeded, queue, d429, console_messages, page_text, phase,
          step, lg_attempt, sc_attempt, err429, slot_count, hist, out>>

\* =====================================================================
\* AccountDB
\* =====================================================================

\* a row as INSERT leaves it: the three columns given, the rest defaults
NewRow == [last_check |-> NULL, next_check |-> NULL, is_blocked |-> FALSE]

\* add_account: the INSERT names 3 columns and gives 4 placeholders
\* (line 63), so sqlite3 refuses the statement and no row is written.
add_account(accts) ==
    LET columns == 3
        placeholders == 4
    IN IF columns = placeholders
       THEN [rows |-> Append(accts, NewRow), raised |-> FALSE]
       ELSE [rows |-> accts, raised |-> TRUE]

\* the WHERE clause without its second disjunct: a blocked account never
\* comes back
where_unblocked_only(row, t) == row.is_blocked = FALSE

\* the WHERE clause comparing nothing: any next_check counts as passed
where_any_next_check(row, t) ==
    \/ row.is_blocked = FALSE
    \/ row.next_check # NULL

\* WHERE is_blocked = FALSE OR next_check <= ?   (line 75)
where_clause(row, t) ==
    \/ row.is_blocked = FALSE
    \/ (row.next_check # NULL /\ row.next_check <= t)

\* the ordering with NULL after every value
last_check_nulls_last(a, b) ==
    IF b = NULL THEN a # NULL ELSE (a # NULL /\ a < b)

\* ORDER BY last_check ASC (line 76): SQLite puts NULL before every value
last_check_before(a, b) ==
    IF a = NULL THEN b # NULL ELSE (b # NULL /\ a < b)

\* the sorter: id goes after every entry that does not come after it
RECURSIVE order_insert(_, _, _)
order_insert(accts, s, id) ==
    IF s = <<>> THEN <<id>>
    ELSE IF last_check_before(accts[id].last_check, accts[Head(s)].last_check)
         THEN <<id>> \o s
         ELSE <<Head(s)>> \o order_insert(accts, Tail(s), id)

\* the table scan in rowid order, rows 1..n, filtered and sorted
RECURSIVE select_rows(_, _, _)
select_rows(accts, t, n) ==
    IF n = 0 THEN <<>>
    ELSE LET rest == select_rows(accts, t, n - 1)
         IN IF where_clause(accts[n], t)
            THEN order_insert(accts, rest, n)
            ELSE rest

\* get_active_accounts (lines 67-94): the ids of the rows returned, in order
get_active_accounts(accts, t) == select_rows(accts, t, Len(accts))

\* the UPDATE without `last_check = ?`
update_keeps_last_check(accts, id, is_blocked, next_check, t) ==
    [accts EXCEPT ![id] = [last_check |-> accts[id].last_check,
                           next_check |-> next_check,
                           is_blocked |-> is_blocked]]

\* update_account_status (lines 96-111)
update_account_status(accts, id, is_blocked, next_check, t) ==
    [accts EXCEPT ![id] = [last_check |-> t,
                           next_check |-> next_check,
                           is_blocked |-> is_blocked]]

\* =====================================================================
\* ConsoleMonitor and the rate-limit detector
\* =====================================================================

\* handle_console_message (lines 123-133): the new value of _429_detected
console_flag(flag, has_indicator) == flag \/ has_indicator

\* is_429_error (lines 188-200); raises: page.inner_text failed
is_429_error(text429, flag, raises) ==
    IF raises THEN FALSE
    ELSE IF text429 THEN TRUE
    ELSE flag

\* console_messages[-10:] (line 214)
last_lines(msgs) ==
    IF Len(msgs) <= REPORT_LINES THEN msgs
    ELSE SubSeq(msgs, Len(msgs) - REPORT_LINES + 1, Len(msgs))


\* =====================================================================
\* History
\* =====================================================================

\* outside a probe
NoProbe ==
    [detected |-> FALSE,      \* the detector reported rate-limiting
     h429_calls |-> 0,        \* handle_429_error calls
     writes |-> 0,            \* update_account_status calls
     was_blocked |-> FALSE,   \* the row was blocked when the probe began
     captured |-> FALSE,      \* save_error_page took a capture
     soft |-> FALSE,          \* a safe_click of the search returned False/None
     login_result |-> "none", \* how login ended
     consult |-> "none",      \* is_429_error in this safe_click attempt
     sc_result |-> "none"]    \* what the safe_click call just made returned

\* a step that sends, saves and clicks nothing
NoOut ==
    [captures |-> {},         \* kinds of save_error_page capture taken
     notes |-> {},            \* kinds of notification sent
     report |-> <<>>,         \* buffer lines quoted in the notification
     clicks |-> 0,            \* element.click() calls made by safe_click
     slot |-> NULL]           \* index of the slot element clicked

\* the caller has looked at safe_click's result
Consumed(h) == [h EXCEPT !.consult = "none", !.sc_result = "none"]

\* the account being probed
cur == Head(queue)

\* =====================================================================
\* handle_429_error (lines 202-226)
\* =====================================================================

\* the cooldown forgotten
cooldown_none(t) == t

\* line 208
cooldown_until(t) == t + ACCOUNT_DELAY_MINUTES

\* lines 208-209: the row written
handle_429_rows(accts, id, t) ==
    update_account_status(accts, id, TRUE, cooldown_until(t), t)

\* line 225: the flag after handling
handle_429_flag(flag) == FALSE

\* lines 205, 213-224: the capture and the notification
handle_429_out(msgs) ==
    [NoOut EXCEPT !.captures = {"429_error"},
                  !.notes = {"429"},
                  !.report = last_lines(msgs)]

handle_429_hist(h) ==
    [h EXCEPT !.h429_calls = @ + 1, !.writes = @ + 1, !.captured = TRUE]

\* =====================================================================
\* Control transfer
\* =====================================================================

Ctl(p, ph, st, la, sa) ==
    /\ pc' = p
    /\ phase' = ph
    /\ step' = st
    /\ lg_attempt' = la
    /\ sc_attempt' = sa

\* check_account, lines 408-413: what follows login's return value
after_login(returned) == IF returned THEN "cl_step" ELSE "ca_nologin"

\* login returns `returned`, having ended as `how`
LoginReturn(returned, how, h) ==
    /\ hist' = [h EXCEPT !.login_result = how]
    /\ IF after_login(returned) = "cl_step"
       THEN Ctl("cl_step", "search", 1, 0, 0)
       ELSE Ctl("ca_nologin", "login", 0, 0, 0)

\* login, line 298 `continue`: the next attempt, or line 321 once the
\* attempts are used up
LoginContinue(h) ==
    IF lg_attempt + 1 < MAX_RETRIES
    THEN /\ Ctl("lg_goto", "login", 0, lg_attempt + 1, 0)
         /\ hist' = h
    ELSE LoginReturn(FALSE, "Failed", h)

\* perform_login_actions, line 277: `if not self.safe_click(...)`
step_passed(res) == res = "True"

\* safe_click returned res ("True", "False" or "None") to its caller
ScReturn(res, h) ==
    LET h2 == [h EXCEPT !.sc_result = res] IN
    IF phase = "login"
    THEN IF step_passed(res)
         THEN IF step = LOGIN_ACTIONS
              THEN LoginReturn(TRUE, "LoggedIn", h2)
              ELSE Ctl("lg_action", "login", step + 1, lg_attempt, 0)
                   /\ hist' = h2
         ELSE LoginContinue(h2)
    ELSE /\ hist' = [h2 EXCEPT !.soft = @ \/ ~step_passed(res)]
         /\ IF step = SEARCH_CLICKS_BEFORE
            THEN Ctl("cl_modal", "search", 0, 0, 0)
            ELSE IF step = SEARCH_CLICKS
                 THEN Ctl("cl_save", "search", 0, 0, 0)
                 ELSE Ctl("cl_step", "search", step + 1, 0, 0)

\* every attempt taken for the last one: the first error propagates
every_attempt_last(attempt, retries) == TRUE

\* safe_click, line 250: the attempt that raised was the last one
last_attempt(attempt, retries) == attempt = retries - 1

\* safe_click, lines 246-255: an attempt raised
ScFail(e429) ==
    IF last_attempt(sc_attempt, MAX_RETRIES)
    THEN /\ hist' = [hist EXCEPT !.sc_result = "raised", !.captured = TRUE]
         /\ out' = [NoOut EXCEPT !.captures = {"click_error"}]
         /\ err429' = e429
         /\ IF phase = "login"
            THEN Ctl("lg_except", "login", 0, lg_attempt, 0)
            ELSE Ctl("cl_except", "search", 0, 0, 0)
    ELSE /\ hist' = [hist EXCEPT !.consult = "none"]
         /\ out' = NoOut
         /\ err429' = FALSE
         /\ Ctl("sc_check", phase, step, lg_attempt, sc_attempt + 1)

\* =====================================================================
\* main, the scheduler and run_check
\* =====================================================================

\* unchanged by every step of a probe
Outside == <<next_run, in_loop, db_open, seeded, queue>>

\* unchanged by every step outside a probe
Inside == <<page_text, phase, step, lg_attempt, sc_attempt, err429,
            slot_count, hist, out>>

\* volatile state of a process that is not probing
Quiet ==
    /\ queue' = <<>>
    /\ page_text' = FALSE
    /\ err429' = FALSE
    /\ slot_count' = 0
    /\ hist' = NoProbe
    /\ out' = NoOut
    /\ phase' = "login"
    /\ step' = 0
    /\ lg_attempt' = 0
    /\ sc_attempt' = 0

\* the process ends: what it held in memory is gone
Ends(p, cause) ==
    /\ pc' = p
    /\ crash_cause' = cause
    /\ Quiet
    /\ d429' = FALSE
    /\ console_messages' = <<>>
    /\ seeded' = 0
    /\ next_run' = 0
    /\ in_loop' = FALSE

\* main, line 449: seed when get_active_accounts returns nothing
needs_seed(active) == active = <<>>

\* main, lines 445-449 and 462: open the store, build the checker, decide
\* whether to seed, register the job
MainStart ==
    /\ pc = "main_start"
    /\ pc' = IF needs_seed(get_active_accounts(accounts, now))
             THEN "main_seed" ELSE "rc_fetch"
    /\ next_run' = now + CHECK_INTERVAL_MINUTES
    /\ UNCHANGED <<accounts, now, in_loop, db_open, crash_cause, seeded,
                   queue, d429, console_messages>>
    /\ UNCHANGED Inside

\* main, lines 450-459: one add_account call; its exception ends the process
MainSeed ==
    /\ pc = "main_seed"
    /\ LET r == add_account(accounts) IN
       /\ accounts' = r.rows
       /\ IF r.raised
          THEN /\ Ends("dead", "add_account")
               /\ db_open' = db_open
          ELSE /\ seeded' = seeded + 1
               /\ pc' = IF seeded' = SEED_ACCOUNTS THEN "rc_fetch"
                        ELSE "main_seed"
               /\ UNCHANGED <<next_run, in_loop, db_open, crash_cause, queue,
                              d429, console_messages>>
               /\ UNCHANGED Inside
    /\ now' = now

\* run_check, lines 428-433
RcFetch ==
    /\ pc = "rc_fetch"
    /\ queue' = get_active_accounts(accounts, now)
    /\ pc' = IF queue' = <<>> THEN "rc_return" ELSE "ca_open"
    /\ UNCHANGED <<accounts, now, next_run, in_loop, db_open, crash_cause,
                   seeded, d429, console_messages>>
    /\ UNCHANGED Inside

\* run_check returns: to main line 465 (the first run, after which main
\* enters its try block) or to schedule, which sets the job's next run
RcReturn ==
    /\ pc = "rc_return"
    /\ pc' = "idle"
    /\ in_loop' = TRUE
    /\ next_run' = IF in_loop THEN now + CHECK_INTERVAL_MINUTES ELSE next_run
    /\ UNCHANGED <<accounts, now, db_open, crash_cause, seeded, queue, d429,
                   console_messages>>
    /\ UNCHANGED Inside

\* main, lines 469-470: schedule.run_pending() finds the job due; the
\* job's next_run is not read again before RcReturn sets it
RunPending ==
    /\ pc = "idle"
    /\ now >= next_run
    /\ pc' = "rc_fetch"
    /\ next_run' = 0
    /\ UNCHANGED <<accounts, now, in_loop, db_open, crash_cause, seeded,
                   queue, d429, console_messages>>
    /\ UNCHANGED Inside

\* where the clock is seen to advance: between two cycles (line 471) and
\* while the process is not running; the sleeps inside a cycle are seconds
SleepPcs == {"idle", "dead", "stopped"}

\* the clock advances
Tick ==
    /\ pc \in SleepPcs
    /\ now + CHECK_INTERVAL_MINUTES <= MaxTime
    /\ now' = now + CHECK_INTERVAL_MINUTES
    /\ UNCHANGED <<accounts, next_run, pc, in_loop, db_open, crash_cause,
                   seeded, queue, d429, console_messages>>
    /\ UNCHANGED Inside

\* run_check, line 438, and the for loop's next iteration
RcSleep ==
    /\ pc = "rc_sleep"
    /\ queue' = Tail(queue)
    /\ pc' = IF queue' = <<>> THEN "rc_return" ELSE "ca_open"
    /\ UNCHANGED <<accounts, now, next_run, in_loop, db_open, crash_cause,
                   seeded, d429, console_messages>>
    /\ UNCHANGED Inside

\* KeyboardInterrupt is caught only inside main's try block (lines 468-474),
\* whose handler closes the store
interrupt_closes_db(inside_try) == inside_try

Interrupt ==
    /\ pc \notin {"dead", "stopped"}
    /\ IF interrupt_closes_db(in_loop)
       THEN /\ db_open' = FALSE
            /\ Ends("stopped", "")
       ELSE /\ db_open' = db_open
            /\ Ends("dead", "interrupt")
    /\ UNCHANGED <<accounts, now>>

\* the program is started again on the same store
Restart ==
    /\ pc \in {"dead", "stopped"}
    /\ pc' = "main_start"
    /\ db_open' = TRUE
    /\ crash_cause' = ""
    /\ UNCHANGED <<accounts, now, next_run, in_loop, seeded, queue, d429,
                   console_messages>>
    /\ UNCHANGED Inside


\* =====================================================================
\* check_account and login
\* =====================================================================

\* check_account, lines 402-403: the browser and the page are opened
\* outside the try block, so a failure leaves check_account, run_check and
\* main (which catches KeyboardInterrupt only)
CaOpen ==
    /\ pc = "ca_open"
    /\ \E ok \in BOOLEAN :
          IF ok
          THEN /\ pc' = "ca_update"
               /\ hist' = [NoProbe EXCEPT
                              !.was_blocked = accounts[cur].is_blocked]
               /\ UNCHANGED <<crash_cause, d429, console_messages, page_text,
                              phase, step, lg_attempt, sc_attempt, err429,
                              slot_count, out>>
               /\ UNCHANGED Outside
          ELSE /\ Ends("dead", "browser")
               /\ db_open' = db_open
    /\ UNCHANGED <<accounts, now>>

\* check_account, lines 405-406, and login, lines 285-286
CaUpdate ==
    /\ pc = "ca_update"
    /\ accounts' = update_account_status(accounts, cur, FALSE, NULL, now)
    /\ hist' = [hist EXCEPT !.writes = @ + 1]
    /\ out' = NoOut
    /\ Ctl("lg_goto", "login", 0, 0, 0)
    /\ UNCHANGED <<now, crash_cause, d429, console_messages, page_text,
                   err429, slot_count>>
    /\ UNCHANGED Outside

\* login, line 293: `not response or response.status == 429`
status_limited(resp) == resp = "429"

\* login, lines 289-293: page.goto answers 200 or 429, or raises; the page
\* it leaves may or may not show an indicator
LgGoto ==
    /\ pc = "lg_goto"
    /\ \E resp \in {"200", "429", "raise"}, txt \in BOOLEAN, e \in BOOLEAN :
          /\ page_text' = txt
          /\ IF resp = "raise"
             THEN /\ pc' = "lg_except"
                  /\ err429' = e
                  /\ hist' = Consumed(hist)
             ELSE /\ err429' = FALSE
                  /\ e = FALSE
                  /\ IF status_limited(resp)
                     THEN /\ pc' = "lg_h429"
                          /\ hist' = [Consumed(hist) EXCEPT !.detected = TRUE]
                     ELSE /\ pc' = "lg_check"
                          /\ hist' = Consumed(hist)
    /\ out' = NoOut
    /\ UNCHANGED <<accounts, now, crash_cause, d429, console_messages, phase,
                   step, lg_attempt, sc_attempt, slot_count>>
    /\ UNCHANGED Outside

\* login, line 293: `self.is_429_error(page)` on the loaded page
LgCheck ==
    /\ pc = "lg_check"
    /\ \E raises \in BOOLEAN :
          IF is_429_error(page_text, d429, raises)
          THEN /\ pc' = "lg_h429"
               /\ hist' = [hist EXCEPT !.detected = TRUE]
               /\ UNCHANGED <<phase, step, lg_attempt, sc_attempt>>
          ELSE /\ Ctl("lg_action", "login", 1, lg_attempt, 0)
               /\ hist' = hist
    /\ out' = NoOut
    /\ UNCHANGED <<accounts, now, crash_cause, d429, console_messages,
                   page_text, err429, slot_count>>
    /\ UNCHANGED Outside

\* login, lines 295 and 307: `return self.handle_429_error(account, page)`;
\* handle_429_error returns True (line 226)
handle_429_returns == TRUE

LgHandle429 ==
    /\ pc = "lg_h429"
    /\ accounts' = handle_429_rows(accounts, cur, now)
    /\ d429' = handle_429_flag(d429)
    /\ out' = handle_429_out(console_messages)
    /\ err429' = FALSE
    /\ LoginReturn(handle_429_returns, "RateLimited", handle_429_hist(hist))
    /\ UNCHANGED <<now, crash_cause, console_messages, page_text, slot_count>>
    /\ UNCHANGED Outside

\* login, lines 302-320: the except block
LgExcept ==
    /\ pc = "lg_except"
    /\ err429' = FALSE
    /\ IF err429
       THEN /\ pc' = "lg_h429"
            /\ hist' = Consumed(hist)
            /\ out' = NoOut
            /\ UNCHANGED <<phase, step, lg_attempt, sc_attempt>>
       ELSE IF last_attempt(lg_attempt, MAX_RETRIES)
            THEN /\ LoginReturn(FALSE, "Failed",
                                [Consumed(hist) EXCEPT !.captured = TRUE])
                 /\ out' = [NoOut EXCEPT !.captures = {"login_error"},
                                         !.notes = {"login_error"}]
            ELSE /\ Ctl("lg_sleep", "login", 0, lg_attempt, 0)
                 /\ hist' = Consumed(hist)
                 /\ out' = NoOut
    /\ UNCHANGED <<accounts, now, crash_cause, d429, console_messages,
                   page_text, slot_count>>
    /\ UNCHANGED Outside

\* login, line 320: time.sleep(10), then the next attempt
LgSleep ==
    /\ pc = "lg_sleep"
    /\ Ctl("lg_goto", "login", 0, lg_attempt + 1, 0)
    /\ UNCHANGED <<accounts, now, crash_cause, d429, console_messages,
                   page_text, err429, slot_count, hist, out>>
    /\ UNCHANGED Outside

\* perform_login_actions, lines 270-278: the password is filled directly,
\* every other action goes through safe_click
LgAction ==
    /\ pc = "lg_action"
    /\ IF step = PASSWORD_ACTION
       THEN \E raised \in BOOLEAN, e \in BOOLEAN :
               IF raised
               THEN /\ Ctl("lg_except", "login", 0, lg_attempt, 0)
                    /\ err429' = e
               ELSE /\ Ctl("lg_action", "login", step + 1, lg_attempt, 0)
                    /\ err429' = FALSE
                    /\ e = FALSE
       ELSE /\ Ctl("sc_check", "login", step, lg_attempt, 0)
            /\ err429' = FALSE
    /\ hist' = Consumed(hist)
    /\ out' = NoOut
    /\ UNCHANGED <<accounts, now, crash_cause, d429, console_messages,
                   page_text, slot_count>>
    /\ UNCHANGED Outside

\* check_account, lines 409-411
CaNoLogin ==
    /\ pc = "ca_nologin"
    /\ pc' = "ca_close"
    /\ hist' = Consumed(hist)
    /\ out' = [NoOut EXCEPT !.notes = {"no_login"}]
    /\ UNCHANGED <<accounts, now, crash_cause, d429, console_messages,
                   page_text, phase, step, lg_attempt, sc_attempt, err429,
                   slot_count>>
    /\ UNCHANGED Outside

\* check_account returns and the browser closes (line 402's `with`)
CaClose ==
    /\ pc = "ca_close"
    /\ pc' = "rc_sleep"
    /\ page_text' = FALSE
    /\ err429' = FALSE
    /\ slot_count' = 0
    /\ hist' = NoProbe
    /\ out' = NoOut
    /\ phase' = "login"
    /\ step' = 0
    /\ lg_attempt' = 0
    /\ sc_attempt' = 0
    /\ UNCHANGED <<accounts, now, crash_cause, d429, console_messages>>
    /\ UNCHANGED Outside

\* =====================================================================
\* safe_click (lines 228-256), called with the default retries
\* =====================================================================

\* safe_click going on whatever the detector says
sc_never_aborts(limited) == FALSE

\* lines 234-235: `if self.is_429_error(page): return False`
sc_aborts(limited) == limited

\* lines 233-235: the detector is consulted before the attempt
ScCheck ==
    /\ pc = "sc_check"
    /\ \E raises \in BOOLEAN :
          LET limited == is_429_error(page_text, d429, raises)
              h == [hist EXCEPT
                       !.consult = IF limited THEN "limited" ELSE "clear",
                       !.detected = @ \/ limited]
          IN IF sc_aborts(limited)
             THEN ScReturn("False", h)
             ELSE /\ pc' = "sc_wait"
                  /\ hist' = h
                  /\ UNCHANGED <<phase, step, lg_attempt, sc_attempt>>
    /\ out' = NoOut
    /\ UNCHANGED <<accounts, now, crash_cause, d429, console_messages,
                   page_text, err429, slot_count>>
    /\ UNCHANGED Outside

\* lines 237-244: wait_for_selector gives the element, gives None, or
\* raises; the element found is clicked, which returns, leaving a page that
\* may or may not show an indicator, or raises
ScClick ==
    /\ pc = "sc_wait"
    /\ \E found \in {"element", "none", "raise"}, clicked \in BOOLEAN,
          txt \in BOOLEAN, e \in BOOLEAN :
          CASE found = "element" /\ clicked ->
                  /\ e = FALSE
                  /\ err429' = FALSE
                  /\ page_text' = txt
                  /\ out' = [NoOut EXCEPT !.clicks = 1]
                  /\ ScReturn("True", hist)
            [] found = "none" ->
                  /\ e = FALSE
                  /\ clicked = FALSE
                  /\ txt = page_text
                  /\ err429' = FALSE
                  /\ page_text' = page_text
                  /\ out' = NoOut
                  /\ IF sc_attempt + 1 < MAX_RETRIES
                     THEN /\ Ctl("sc_check", phase, step, lg_attempt,
                                 sc_attempt + 1)
                          /\ hist' = [hist EXCEPT !.consult = "none"]
                     ELSE ScReturn("None", hist)
            [] OTHER ->
                  /\ txt = page_text
                  /\ (found = "raise" => clicked = FALSE)
                  /\ page_text' = page_text
                  /\ ScFail(e)
    /\ UNCHANGED <<accounts, now, crash_cause, d429, console_messages,
                   slot_count>>
    /\ UNCHANGED Outside

\* =====================================================================
\* check_location_availability (lines 323-398)
\* =====================================================================

\* lines 329-334 and 371-378: the next safe_click call; what the previous
\* one returned is not looked at
ClStep ==
    /\ pc = "cl_step"
    /\ Ctl("sc_check", "search", step, 0, 0)
    /\ hist' = Consumed(hist)
    /\ out' = NoOut
    /\ slot_count' = 0
    /\ UNCHANGED <<accounts, now, crash_cause, d429, console_messages,
                   page_text, err429>>
    /\ UNCHANGED Outside

\* lines 337-343: the modal's text is read; a timeout is suppressed
ClModal ==
    /\ pc = "cl_modal"
    /\ \E modal \in {"timeout", "no_slot", "other", "raise"}, e \in BOOLEAN :
          CASE modal = "no_slot" ->
                  /\ e = FALSE
                  /\ pc' = "ca_close"
                  /\ err429' = FALSE
            [] modal \in {"timeout", "other"} ->
                  /\ e = FALSE
                  /\ pc' = "cl_count"
                  /\ err429' = FALSE
            [] modal = "raise" ->
                  /\ pc' = "cl_except"
                  /\ err429' = e
    /\ hist' = Consumed(hist)
    /\ out' = NoOut
    /\ UNCHANGED <<accounts, now, crash_cause, d429, console_messages,
                   page_text, phase, step, lg_attempt, sc_attempt,
                   slot_count>>
    /\ UNCHANGED Outside

\* lines 349-351: `if count == 0: return False`
no_slots(count) == count = 0

\* lines 346-351: the selectable slots are counted
ClCount ==
    /\ pc = "cl_count"
    /\ \E n \in 0 .. MaxSlots :
          /\ slot_count' = n
          /\ pc' = IF no_slots(n) THEN "ca_close" ELSE "cl_pick"
    /\ out' = NoOut
    /\ UNCHANGED <<accounts, now, crash_cause, d429, console_messages,
                   page_text, phase, step, lg_attempt, sc_attempt, err429,
                   hist>>
    /\ UNCHANGED Outside

\* a draw that may go one past the upper end
randint_past(lo, hi) == lo .. hi + 1

\* line 361: random.randint(0, count - 1)
randint(lo, hi) == lo .. hi

\* lines 356-369: the date is read, a slot is drawn and clicked
ClPick ==
    /\ pc = "cl_pick"
    /\ \E i \in randint(0, slot_count - 1), raised \in BOOLEAN, e \in BOOLEAN :
          IF raised
          THEN /\ i = 0
               /\ pc' = "cl_except"
               /\ err429' = e
               /\ out' = NoOut
               /\ slot_count' = 0
               /\ UNCHANGED <<phase, step, lg_attempt, sc_attempt>>
          ELSE /\ e = FALSE
               /\ err429' = FALSE
               /\ out' = [NoOut EXCEPT !.slot = i]
               /\ slot_count' = slot_count
               /\ Ctl("cl_step", "search", SEARCH_CLICKS_BEFORE + 1, 0, 0)
    /\ UNCHANGED <<accounts, now, crash_cause, d429, console_messages,
                   page_text, hist>>
    /\ UNCHANGED Outside

\* lines 381-391: the page is saved and the success notification sent
ClSave ==
    /\ pc = "cl_save"
    /\ \E raised \in BOOLEAN, e \in BOOLEAN :
          IF raised
          THEN /\ pc' = "cl_except"
               /\ err429' = e
               /\ out' = NoOut
          ELSE /\ e = FALSE
               /\ pc' = "ca_close"
               /\ err429' = FALSE
               /\ out' = [NoOut EXCEPT !.notes = {"success"}]
    /\ hist' = Consumed(hist)
    /\ UNCHANGED <<accounts, now, crash_cause, d429, console_messages,
                   page_text, phase, step, lg_attempt, sc_attempt,
                   slot_count>>
    /\ UNCHANGED Outside

\* lines 396-397: the exception's text decides whether the rate-limit
\* handling runs
error_limited(e429) == e429

\* lines 393-398: the except block
ClExcept ==
    /\ pc = "cl_except"
    /\ pc' = "ca_close"
    /\ err429' = FALSE
    /\ IF error_limited(err429)
       THEN /\ accounts' = handle_429_rows(accounts, cur, now)
            /\ d429' = handle_429_flag(d429)
            /\ hist' = handle_429_hist(Consumed(hist))
            /\ out' = [handle_429_out(console_messages) EXCEPT
                          !.captures = @ \cup {"location_error"}]
       ELSE /\ accounts' = accounts
            /\ d429' = d429
            /\ hist' = [Consumed(hist) EXCEPT !.captured = TRUE]
            /\ out' = [NoOut EXCEPT !.captures = {"location_error"}]
    /\ UNCHANGED <<now, crash_cause, console_messages, page_text, phase,
                   step, lg_attempt, sc_attempt, slot_count>>
    /\ UNCHANGED Outside

\* =====================================================================
\* Console messages
\* =====================================================================

\* positions whose page operation lets the listener registered at line 285
\* run
PagePcs == {"lg_goto", "lg_check", "lg_action", "lg_h429", "lg_except",
            "sc_check", "sc_wait", "cl_step", "cl_modal",
            "cl_count", "cl_pick", "cl_save", "cl_except"}

\* handle_console_message (lines 123-133)
ConsoleEvent ==
    /\ pc \in PagePcs
    /\ Len(console_messages) < MaxMsgs
    /\ \E has_indicator \in BOOLEAN :
          /\ console_messages' = Append(console_messages, "line")
          /\ d429' = console_flag(d429, has_indicator)
    /\ UNCHANGED <<accounts, now, pc, crash_cause>>
    /\ UNCHANGED Inside
    /\ UNCHANGED Outside

\* =====================================================================
\* The program
\* =====================================================================

\* the store holds the rows someone inserted, none of them probed yet
Init ==
    /\ \E n \in 0 .. MaxAccounts : accounts = [i \in 1 .. n |-> NewRow]
    /\ now = 0
    /\ next_run = 0
    /\ pc = "main_start"
    /\ in_loop = FALSE
    /\ db_open = TRUE
    /\ crash_cause = ""
    /\ seeded = 0
    /\ queue = <<>>
    /\ d429 = FALSE
    /\ console_messages = <<>>
    /\ page_text = FALSE
    /\ phase = "login"
    /\ step = 0
    /\ lg_attempt = 0
    /\ sc_attempt = 0
    /\ err429 = FALSE
    /\ slot_count = 0
    /\ hist = NoProbe
    /\ out = NoOut

Next ==
    \/ MainStart \/ MainSeed \/ RcFetch \/ RcReturn \/ RunPending \/ Tick
    \/ RcSleep \/ Interrupt \/ Restart
    \/ CaOpen \/ CaUpdate \/ LgGoto \/ LgCheck \/ LgHandle429 \/ LgExcept
    \/ LgSleep \/ LgAction \/ CaNoLogin \/ CaClose
    \/ ScCheck \/ ScClick
    \/ ClStep \/ ClModal \/ ClCount \/ ClPick \/ ClSave \/ ClExcept
    \/ ConsoleEvent

Spec == Init /\ [][Next]_vars


\* =====================================================================
\* The account store on its own: any rows, any time
\* =====================================================================

StoreTimes == {t \in 0 .. StoreMaxTime : t % CHECK_INTERVAL_MINUTES = 0}

StoreRows == [last_check : StoreTimes \cup {NULL},
              next_check : StoreTimes \cup {NULL},
              is_blocked : BOOLEAN]

InitStore ==
    /\ accounts \in UNION {[1 .. n -> StoreRows] : n \in 0 .. MaxAccounts}
    /\ now \in StoreTimes
    /\ pc = "store"
    /\ next_run = 0
    /\ in_loop = FALSE
    /\ db_open = TRUE
    /\ crash_cause = ""
    /\ seeded = 0
    /\ queue = <<>>
    /\ d429 = FALSE
    /\ console_messages = <<>>
    /\ page_text = FALSE
    /\ phase = "login"
    /\ step = 0
    /\ lg_attempt = 0
    /\ sc_attempt = 0
    /\ err429 = FALSE
    /\ slot_count = 0
    /\ hist = NoProbe
    /\ out = NoOut

StoreRest == <<next_run, in_loop, db_open, crash_cause, seeded, d429,
               console_messages>>

\* get_active_accounts is called; queue holds what it returned
StoreQuery ==
    /\ pc \in {"store", "queried"}
    /\ queue' = get_active_accounts(accounts, now)
    /\ pc' = "queried"
    /\ UNCHANGED <<accounts, now>>
    /\ UNCHANGED StoreRest
    /\ UNCHANGED Inside

\* update_account_status is called the two ways the program calls it
StoreUpdate ==
    /\ pc \in {"store", "queried"}
    /\ \E id \in 1 .. Len(accounts), limited \in BOOLEAN :
          accounts' = IF limited
                      THEN handle_429_rows(accounts, id, now)
                      ELSE update_account_status(accounts, id, FALSE, NULL, now)
    /\ pc' = "store"
    /\ queue' = <<>>
    /\ now' = now
    /\ UNCHANGED StoreRest
    /\ UNCHANGED Inside

StoreTick ==
    /\ pc \in {"store", "queried"}
    /\ now + CHECK_INTERVAL_MINUTES <= StoreMaxTime
    /\ now' = now + CHECK_INTERVAL_MINUTES
    /\ pc' = "store"
    /\ queue' = <<>>
    /\ accounts' = accounts
    /\ UNCHANGED StoreRest
    /\ UNCHANGED Inside

NextStore == StoreQuery \/ StoreUpdate \/ StoreTick

SpecStore == InitStore /\ [][NextStore]_vars


\* =====================================================================
\* Properties
\* =====================================================================

\* C1: the slot search runs only in a probe whose login ended LoggedIn; in
\* particular never after login ran the rate-limit handling.
C1_SearchOnlyAfterLoggedIn ==
    phase = "search" => hist.login_result = "LoggedIn"

\* C2: a probe in which the detector reported rate-limiting (status 429,
\* page text or sticky flag, also inside safe_click) ends with the row
\* blocked until now + ACCOUNT_DELAY_MINUTES and the handling (capture and
\* notification) having run.
C2_DetectionAlwaysHandled ==
    (pc = "ca_close" /\ hist.detected) =>
        /\ hist.h429_calls > 0
        /\ accounts[cur].is_blocked
        /\ accounts[cur].next_check = now + ACCOUNT_DELAY_MINUTES

\* C3: when a probe starts, the sticky flag is false.
C3_FlagClearAtProbeStart ==
    pc = "ca_update" => ~d429

\* C4 as claimed: safe_click never clicks in a state where the page text
\* shows an indicator or the sticky flag is set.
C4_NoClickInDetectedState ==
    [][(pc = "sc_wait" /\ out'.clicks > 0) => ~(page_text \/ d429)]_vars

\* C4 as amended: an attempt of safe_click waits for and clicks the element
\* only after its own consultation of the detector answered "not
\* rate-limited"; a consultation that answers "rate-limited" makes
\* safe_click return False at once, nothing located or clicked and no
\* further attempt made.
C4_ClickOnlyAfterClearConsult ==
    /\ pc = "sc_wait" => hist.consult = "clear"
    /\ out.clicks > 0 => (hist.consult = "clear" /\ hist.sc_result = "True")
    /\ hist.consult = "limited" =>
          (pc # "sc_wait" /\ pc # "sc_check" /\ hist.sc_result = "False"
           /\ out.clicks = 0)

\* C4: safe_click was called with the flag set and returned False at once
C4_Witness ==
    /\ hist.consult = "limited"
    /\ hist.sc_result = "False"
    /\ d429
    /\ ~page_text

\* C5: no failure that arises while an account is probed ends the cycle
\* or the process.
C5_ErrorsStayInsideProbe ==
    ~(pc = "dead" /\ crash_cause = "browser")

\* C6: get_active_accounts returns, once each, exactly the accounts that
\* are not blocked or whose next_check is not later than now.
C6_ActiveAccountsExact ==
    pc = "queried" =>
        /\ \A id \in 1 .. Len(accounts) :
              (\E i \in 1 .. Len(queue) : queue[i] = id)
              <=> \/ ~accounts[id].is_blocked
                  \/ /\ accounts[id].next_check # NULL
                     /\ accounts[id].next_check <= now
        /\ \A i, j \in 1 .. Len(queue) : queue[i] = queue[j] => i = j
        /\ \A i \in 1 .. Len(queue) : queue[i] \in 1 .. Len(accounts)

\* C6: one blocked account is left out, its cooldown running, while another
\* whose cooldown has passed is returned
C6_Witness ==
    /\ pc = "queried"
    /\ Len(accounts) = 2
    /\ accounts[1].is_blocked /\ accounts[1].next_check > now
    /\ accounts[2].is_blocked /\ accounts[2].next_check # NULL
    /\ accounts[2].next_check <= now
    /\ queue = <<2>>

\* C7: no probe starts for an account whose row is blocked with next_check
\* later than now.
C7_NoProbeDuringCooldown ==
    pc \in {"ca_open", "ca_update"} =>
        ~(accounts[cur].is_blocked /\ accounts[cur].next_check > now)

\* C7: a cycle probes the second account and has left out the first, which
\* an earlier cycle blocked and whose cooldown is still running
C7_Witness ==
    /\ pc = "ca_open"
    /\ Len(accounts) = 2
    /\ queue = <<2>>
    /\ accounts[1].is_blocked
    /\ accounts[1].next_check > now
    /\ accounts[1].last_check < now

C9_OrderedByLastCheck ==
    pc = "queried" =>
        \A i, j \in 1 .. Len(queue) :
            i < j =>
                LET a == accounts[queue[i]].last_check
                    b == accounts[queue[j]].last_check
                IN /\ b = NULL => a = NULL
                   /\ (a # NULL /\ b # NULL) => a <= b

\* C9: the later row was never checked and comes first
C9_Witness ==
    /\ pc = "queried"
    /\ Len(accounts) = 2
    /\ accounts[1].last_check # NULL
    /\ accounts[2].last_check = NULL
    /\ queue = <<2, 1>>

\* C10: every add_account call made at startup inserts one new row with
\* null check times and is_blocked = false, so a start on an empty store
\* goes on to its first cycle with the two seed accounts.
C10_AddAccountInserts ==
    [][(pc = "main_seed" /\ crash_cause' # "interrupt" /\ pc' # "stopped") =>
          /\ accounts' = Append(accounts, NewRow)
          /\ pc' \in {"main_seed", "rc_fetch"}]_vars

C12_FailedLoginCaptured ==
    (pc = "ca_close" /\ hist.login_result = "Failed" /\ ~hist.detected) =>
        /\ hist.captured
        /\ out.notes # {}
        /\ phase = "login"

\* C13: safe_click makes at most MAX_RETRIES attempts; it propagates an
\* error only out of its last attempt, and an attempt that is the last one
\* ends the call; a click_error capture is taken exactly in the calls that
\* propagate; a call that returns True has clicked once, one that returns
\* False was aborted by the detector and one that returns None did not
\* locate the element, both without click or capture.
C13_SafeClickOutcomes ==
    /\ [](sc_attempt < MAX_RETRIES)
    /\ []("click_error" \in out.captures <=> hist.sc_result = "raised")
    /\ [](hist.sc_result = "True" => out.clicks = 1 /\ out.captures = {})
    /\ [](hist.sc_result = "False" =>
             hist.consult = "limited" /\ out.clicks = 0 /\ out.captures = {})
    /\ [](hist.sc_result = "None" =>
             hist.consult = "clear" /\ out.clicks = 0 /\ out.captures = {})
    /\ [][(hist'.sc_result = "raised" /\ hist.sc_result # "raised") =>
             (pc = "sc_wait" /\ sc_attempt = MAX_RETRIES - 1)]_vars
    /\ [][(pc = "sc_wait" /\ pc' = "sc_check") =>
             (sc_attempt' = sc_attempt + 1 /\ out' = NoOut
              /\ hist'.sc_result = "none")]_vars
    /\ [][(pc = "sc_wait" /\ sc_attempt = MAX_RETRIES - 1
           /\ pc' \notin {"sc_wait", "dead", "stopped"}) =>
             hist'.sc_result \in {"True", "None", "raised"}]_vars

\* C13: the third attempt of a call raised: the error propagates and the
\* click_error capture is taken
C13_Witness ==
    /\ hist.sc_result = "raised"
    /\ out.captures = {"click_error"}
    /\ pc \in {"lg_except", "cl_except"}

\* C14 as claimed: whenever the slot count n is greater than 0, the search
\* goes on to click one slot element, of index in 0..n-1.
C14_SlotAlwaysClicked ==
    [][(pc = "cl_pick" /\ pc' \notin {"cl_pick", "dead", "stopped"}) =>
          out'.slot \in 0 .. slot_count - 1]_vars

\* C14 as amended: with n = 0 the search returns at once, nothing clicked
\* and nothing sent; a slot element is clicked only when n > 0, in the one
\* step that follows the count, and its index lies in 0..n-1; with n > 0
\* that step clicks a slot element unless a page operation of it raises,
\* and then it clicks none.
C14_SlotClickInRange ==
    /\ [][(pc = "cl_count" /\ slot_count' = 0
           /\ pc' \notin {"cl_count", "dead", "stopped"}) =>
             (pc' = "ca_close" /\ out' = NoOut)]_vars
    /\ [][(pc' = "cl_pick" /\ pc # "cl_pick") =>
             (pc = "cl_count" /\ slot_count' > 0)]_vars
    /\ [][out'.slot # out.slot /\ out'.slot # NULL =>
             (pc = "cl_pick" /\ slot_count > 0
              /\ out'.slot \in 0 .. slot_count - 1)]_vars
    /\ [][(pc = "cl_pick" /\ pc' \notin {"cl_pick", "dead", "stopped"}) =>
             \/ pc' = "cl_step" /\ out'.slot \in 0 .. slot_count - 1
             \/ pc' = "cl_except" /\ out'.slot = NULL]_vars
    /\ [](out.slot # NULL => pc = "cl_step" /\ step = SEARCH_CLICKS_BEFORE + 1)

\* C14: of two slots counted, the second was clicked
C14_Witness ==
    /\ pc = "cl_step"
    /\ slot_count = 2
    /\ out.slot = 1

\* C15: a process ended by an external interrupt, wherever the interrupt
\* arrived, has closed the account store.
C15_InterruptClosesStore ==
    (pc = "stopped" \/ (pc = "dead" /\ crash_cause = "interrupt")) => ~db_open

\* C16: the success notification is sent only in a probe in which every
\* safe_click of the booking sequence returned True.
C16_SuccessOnlyAfterAllSteps ==
    "success" \in out.notes => ~hist.soft

\* C17: a probe calls update_account_status at most twice: once when it
\* starts and at most once more, from the rate-limit handling.
C17_AtMostTwoWrites ==
    hist.writes <= 2 /\ hist.h429_calls <= 1

\* C18: login makes at most MAX_RETRIES attempts, and the step that begins
\* the next attempt of a probe is the end of the backoff sleep.
C18_BackoffBetweenAttempts ==
    /\ [](lg_attempt < MAX_RETRIES)
    /\ [][lg_attempt' > lg_attempt => pc = "lg_sleep"]_vars

\* C19: when a probe starts, the console buffer is empty.
C19_BufferEmptyAtProbeStart ==
    pc = "ca_update" => console_messages = <<>>

\* C20: in every state the program brings the store to, every row is
\* blocked exactly if its next_check is set, and a row whose next_check is
\* set has a last_check, earlier than the next_check.
C20_RowInvariant ==
    \A a \in 1 .. Len(accounts) :
        /\ accounts[a].is_blocked <=> accounts[a].next_check # NULL
        /\ accounts[a].next_check # NULL =>
              /\ accounts[a].last_check # NULL
              /\ accounts[a].next_check > accounts[a].last_check

\* C20: of two rows, one is blocked with its cooldown set and the other
\* has been probed and is not blocked
C20_Witness ==
    /\ Len(accounts) = 2
    /\ accounts[1].is_blocked
    /\ accounts[1].next_check = accounts[1].last_check + ACCOUNT_DELAY_MINUTES
    /\ ~accounts[2].is_blocked
    /\ accounts[2].last_check # NULL
    /\ accounts[2].next_check = NULL

====
